---- MODULE Spec2Model ----
(***************************************************************************)
(* Model of the invoice generator (src/enhanced_generator.py):             *)
(*   - _parse_csv_row : one csv.DictReader row -> InvoiceData               *)
(*   - process_csv    : the batch loop that parses, renders, saves the      *)
(*                      HTML preview and calls the PDF renderer             *)
(* Text is modelled as a sequence of one-character strings, so that        *)
(* split("|"), strip(), replace("/", "_"), int() and float() are computed  *)
(* on the characters as Python computes them.                              *)
(***************************************************************************)
EXTENDS Integers, Sequences, FiniteSets, TLC

VARIABLES
    row,        \* _parse_csv_row: the row handed to the parser
    parsed,     \* _parse_csv_row: its outcome (an InvoiceData or the exception)
    csv_file,   \* the input file: "missing", "unopenable" or "readable"
    pc,         \* process_csv: position of the batch call
    fieldnames, \* process_csv: reader.fieldnames, the header of the open file
    row_num,    \* process_csv: number of the last row read (enumerate(reader, 1))
    results,    \* process_csv: the results dictionary
    files,      \* the output directory: path -> number of the row that wrote it last
    weasyprint_available, \* module global WEASYPRINT_AVAILABLE
    hist,       \* history: what happened to each row read so far
    template,   \* generate_invoice_html: the text of the template file
    invoice_data, \* generate_invoice_html: the InvoiceData rendered
    now,        \* the clock read by datetime.now(): calendar date and hour
    rendered,   \* generate_invoice_html: the results of the calls made so far
    issue_date, \* _calculate_due_date: its issue_date argument
    days,       \* _calculate_due_date: its days argument
    due_date,   \* _calculate_due_date: its outcome (the text or the exception)
    csv_content, \* the input file: its header and the rows the reader yields
    issues,     \* validate_csv_structure: the issues list
    validate_pc, \* validate_csv_structure: position of the call
    validate_row_num \* validate_csv_structure: number of the last row checked

parseVars == <<row, parsed>>

batchVars == <<csv_file, pc, fieldnames, row_num, results, files,
               weasyprint_available, hist>>

renderVars == <<template, invoice_data, now, rendered>>

dueVars == <<issue_date, days, due_date>>

validateVars == <<csv_content, issues, validate_pc, validate_row_num>>

vars == <<row, parsed, csv_file, pc, fieldnames, row_num, results, files,
          weasyprint_available, hist, template, invoice_data, now, rendered,
          issue_date, days, due_date, csv_content, issues, validate_pc,
          validate_row_num>>

\* no validation in progress
ValidateIdle ==
    /\ csv_content = [header |-> <<>>, lines |-> <<>>]
    /\ issues = <<>>
    /\ validate_pc = "idle"
    /\ validate_row_num = 0

-----------------------------------------------------------------------------
(* Bounds *)

\* longest batch (number of data rows of the input file)
MaxRows == 2
\* most '|'-separated tokens in a product, quantity or price field
MaxTokens == 2

-----------------------------------------------------------------------------
(* Python text primitives *)

\* the value csv.DictReader gives to a column the row has no cell for
\* (restval); a one-element sequence that no text equals
None == <<"<None>">>

Range(s) == {s[i] : i \in 1..Len(s)}

Whitespace == {" "}

Digits == {"0", "1", "2", "3", "4", "5", "6", "7", "8", "9"}

DigitVal(c) ==
    CASE c = "0" -> 0 [] c = "1" -> 1 [] c = "2" -> 2 [] c = "3" -> 3
      [] c = "4" -> 4 [] c = "5" -> 5 [] c = "6" -> 6 [] c = "7" -> 7
      [] c = "8" -> 8 [] c = "9" -> 9

\* str.split(sep) for a one-character separator: always at least one token
RECURSIVE Split(_, _)
Split(s, sep) ==
    IF \A i \in 1..Len(s) : s[i] # sep
    THEN <<s>>
    ELSE LET i == CHOOSE k \in 1..Len(s) :
                      s[k] = sep /\ \A j \in 1..(k - 1) : s[j] # sep
         IN  <<SubSeq(s, 1, i - 1)>> \o Split(SubSeq(s, i + 1, Len(s)), sep)

RECURSIVE LStrip(_)
LStrip(s) == IF s # <<>> /\ Head(s) \in Whitespace THEN LStrip(Tail(s)) ELSE s

RECURSIVE RStrip(_)
RStrip(s) ==
    IF s # <<>> /\ s[Len(s)] \in Whitespace
    THEN RStrip(SubSeq(s, 1, Len(s) - 1)) ELSE s

\* str.strip()
Strip(s) == RStrip(LStrip(s))

\* str.replace(old, new) for one-character old and new
Replace(s, old, new) == [i \in 1..Len(s) |-> IF s[i] = old THEN new ELSE s[i]]

\* value of a sequence of decimal digits
RECURSIVE DigitsValue(_)
DigitsValue(ds) ==
    IF ds = <<>> THEN 0
    ELSE 10 * DigitsValue(SubSeq(ds, 1, Len(ds) - 1)) + DigitVal(ds[Len(ds)])

Unsigned(t) == IF t # <<>> /\ Head(t) \in {"+", "-"} THEN Tail(t) ELSE t

Sign(t) == IF t # <<>> /\ Head(t) = "-" THEN -1 ELSE 1

\* a run of digits, single underscores allowed between digits
DigitRun(b) ==
    /\ b # <<>>
    /\ \A i \in 1..Len(b) : b[i] \in Digits \cup {"_"}
    /\ b[1] # "_" /\ b[Len(b)] # "_"
    /\ \A i \in 1..(Len(b) - 1) : ~(b[i] = "_" /\ b[i + 1] = "_")

\* int(s) accepts: whitespace, an optional sign, a digit run, whitespace;
\* anything else is a ValueError
IsIntLiteral(s) == DigitRun(Unsigned(Strip(s)))

IntOf(s) ==
    LET t == Strip(s) IN
        Sign(t) * DigitsValue(SelectSeq(Unsigned(t), LAMBDA c : c \in Digits))

\* a price is kept exactly, in hundredths
PriceScale == 100

\* float(s) on decimal literals: whitespace, an optional sign, digit runs
\* around at most one '.', at least one digit, whitespace.  (Exponents,
\* "inf" and "nan" are outside the alphabet of the price tokens used here.)
IsFloatLiteral(s) ==
    LET parts == Split(Unsigned(Strip(s)), ".") IN
        /\ Len(parts) <= 2
        /\ \A i \in 1..Len(parts) : parts[i] = <<>> \/ DigitRun(parts[i])
        /\ \E i \in 1..Len(parts) : DigitRun(parts[i])

\* float(s) in hundredths, for literals of at most two fractional digits
FloatOf(s) ==
    LET t    == Strip(s)
        b    == Unsigned(t)
        parts == Split(b, ".")
        whole == DigitsValue(SelectSeq(parts[1], LAMBDA c : c \in Digits))
        frac  == IF Len(parts) > 1
                 THEN SelectSeq(parts[2], LAMBDA c : c \in Digits) ELSE <<>>
        cents == CASE Len(frac) = 0 -> 0
                   [] Len(frac) = 1 -> 10 * DigitsValue(frac)
                   [] OTHER -> DigitsValue(SubSeq(frac, 1, 2))
    IN  Sign(t) * (PriceScale * whole + cents)

-----------------------------------------------------------------------------
(* InvoiceItem, InvoiceData *)

\* a line total that leaves the quantity out
ItemTotalUnitPrice(item) == item.price

\* InvoiceItem.total
ItemTotal(item) == item.quantity * item.price

RECURSIVE SumTotals(_)
SumTotals(items) ==
    IF items = <<>> THEN 0 ELSE ItemTotal(Head(items)) + SumTotals(Tail(items))

\* InvoiceData.subtotal
Subtotal(inv) == SumTotals(inv.items)

\* InvoiceData.tax_amount
TaxAmount(inv) == 0

\* InvoiceData.total_amount
TotalAmount(inv) == Subtotal(inv) + TaxAmount(inv)

-----------------------------------------------------------------------------
(* _parse_csv_row *)

Pending == <<"P", "e", "n", "d", "i", "n", "g">>

ItemColumns == <<"product", "quantity", "price">>

\* the columns _parse_csv_row subscripts after the items, in that order
ScalarColumns ==
    <<"invoice_no", "date", "bill_to", "contact_no", "billing_address",
      "payment_method">>

Raise(e) == [ok |-> FALSE, exc |-> e]

Min(a, b) == IF a <= b THEN a ELSE b

\* the items loop written as a zip() of the three lists
ParseItemsZip(products, quantities, prices) ==
    [i \in 1..Min(Len(products), Min(Len(quantities), Len(prices))) |->
        [product  |-> Strip(products[i]),
         quantity |-> IntOf(quantities[i]),
         price    |-> FloatOf(prices[i])]]

\* the items loop: product list length is authoritative
ParseItems(products, quantities, prices) ==
    [i \in 1..Len(products) |->
        [product  |-> Strip(products[i]),
         quantity |-> IF i <= Len(quantities) THEN IntOf(quantities[i]) ELSE 1,
         price    |-> IF i <= Len(prices) THEN FloatOf(prices[i]) ELSE 0]]

\* the items loop converting the quantities only
ItemsValueErrorQuantityOnly(products, quantities, prices) ==
    \E i \in 1..Len(products) :
        i <= Len(quantities) /\ ~IsIntLiteral(quantities[i])

\* int() or float() raises ValueError inside the items loop
ItemsValueError(products, quantities, prices) ==
    \E i \in 1..Len(products) :
        \/ i <= Len(quantities) /\ ~IsIntLiteral(quantities[i])
        \/ i <= Len(prices) /\ ~IsFloatLiteral(prices[i])

\* row["product"].split("|"), row["quantity"].split("|"), row["price"].split("|")
\* in that order: a missing key is a KeyError, a None value an AttributeError
RECURSIVE SplitError(_, _)
SplitError(r, cols) ==
    IF cols = <<>> THEN "none"
    ELSE IF Head(cols) \notin DOMAIN r THEN "KeyError"
    ELSE IF r[Head(cols)] = None THEN "AttributeError"
    ELSE SplitError(r, Tail(cols))

\* r is the dictionary csv.DictReader yields: column name -> text or None
ParseCsvRow(r) ==
    IF SplitError(r, ItemColumns) # "none"
    THEN Raise(SplitError(r, ItemColumns))
    ELSE LET products   == Split(r["product"], "|")
             quantities == Split(r["quantity"], "|")
             prices     == Split(r["price"], "|")
         IN  IF ItemsValueError(products, quantities, prices)
             THEN Raise("ValueError")
             ELSE IF \E c \in Range(ScalarColumns) : c \notin DOMAIN r
             THEN Raise("KeyError")
             ELSE [ok |-> TRUE,
                   invoice |->
                     [invoice_no      |-> r["invoice_no"],
                      date            |-> r["date"],
                      bill_to         |-> r["bill_to"],
                      contact_no      |-> r["contact_no"],
                      billing_address |-> r["billing_address"],
                      items           |-> ParseItems(products, quantities, prices),
                      payment_method  |-> r["payment_method"],
                      status          |-> IF "status" \in DOMAIN r
                                          THEN r["status"] ELSE Pending]]

-----------------------------------------------------------------------------
(* csv.DictReader *)

\* the header of a well-formed input file
AllColumns ==
    <<"invoice_no", "date", "bill_to", "contact_no", "billing_address",
      "product", "quantity", "price", "payment_method", "status">>

\* the dictionary DictReader builds from a header and the cells of one line:
\* a column without a cell (short line) gets None
DictRow(header, cells) ==
    [c \in Range(header) |->
        LET j == CHOOSE k \in 1..Len(header) : header[k] = c
        IN  IF j <= Len(cells) THEN cells[j] ELSE None]

-----------------------------------------------------------------------------
(* Input rows *)

\* str.join for a one-character separator
RECURSIVE Join(_, _)
Join(tokens, sep) ==
    IF Len(tokens) = 1 THEN tokens[1]
    ELSE tokens[1] \o <<sep>> \o Join(Tail(tokens), sep)

\* every field of 1..MaxTokens tokens of T, joined with '|'
Fields(T) ==
    {Join(ts, "|") : ts \in UNION {[1..n -> T] : n \in 1..MaxTokens}}

ProductTokens == {<<"P">>, <<" ", "Q", " ">>}

QuantityTokens == {<<"2">>, <<" ", "1">>, <<"-", "1">>, <<"x">>}

PriceTokens == {<<"1", ".", "5", "0">>, <<"2", " ">>, <<"-", ".", "5">>, <<"x">>}

Paid == <<"P", "a", "i", "d">>

\* the cells of a plain, well-formed line
PlainData ==
    [invoice_no      |-> <<"A">>,
     date            |-> <<"d">>,
     bill_to         |-> <<"J">>,
     contact_no      |-> <<"c">>,
     billing_address |-> <<"b">>,
     product         |-> <<"P">>,
     quantity        |-> <<"2">>,
     price           |-> <<"1", ".", "5", "0">>,
     payment_method  |-> <<"m">>,
     status          |-> Paid]

\* headers: complete, without the optional status column, without the
\* required price column
Headers ==
    {AllColumns,
     SubSeq(AllColumns, 1, 9),
     SelectSeq(AllColumns, LAMBDA c : c # "price")}

\* the first n cells of a line that holds data d under a header
Cells(header, d, n) == [j \in 1..n |-> d[header[j]]]

\* a line may lack its last two cells
CellCounts(header) == {Len(header), Len(header) - 2}

RowsOf(header, D) ==
    {DictRow(header, Cells(header, d, n)) : d \in D, n \in CellCounts(header)}

\* lines that differ in the item fields
ItemData ==
    {[PlainData EXCEPT !.product = p, !.quantity = q, !.price = c] :
        p \in Fields(ProductTokens) \cup {<<>>},
        q \in Fields(QuantityTokens),
        c \in Fields(PriceTokens)}

\* lines that differ in the identity fields and the status
IdentityData ==
    {[PlainData EXCEPT !.invoice_no = i, !.bill_to = b, !.status = s] :
        i \in {<<"A">>, <<>>, <<" ">>},
        b \in {<<"J">>, <<>>, <<" ", " ">>},
        s \in {Paid, <<>>, <<" ">>, <<"W">>}}

\* the rows handed to _parse_csv_row
ParseRows ==
    RowsOf(AllColumns, ItemData) \cup
    UNION {RowsOf(h, IdentityData) : h \in Headers}

-----------------------------------------------------------------------------
(* _calculate_due_date *)

DigitChar(k) ==
    CASE k = 0 -> "0" [] k = 1 -> "1" [] k = 2 -> "2" [] k = 3 -> "3"
      [] k = 4 -> "4" [] k = 5 -> "5" [] k = 6 -> "6" [] k = 7 -> "7"
      [] k = 8 -> "8" [] k = 9 -> "9"

\* str(n) for a natural number
RECURSIVE NatToText(_)
NatToText(n) ==
    IF n < 10 THEN <<DigitChar(n)>>
    ELSE NatToText(n \div 10) \o <<DigitChar(n % 10)>>

\* %m and %d of strftime: two digits
TwoDigits(n) == IF n < 10 THEN <<"0">> \o NatToText(n) ELSE NatToText(n)

AllDigits(p) == \A i \in 1..Len(p) : p[i] \in Digits

\* datetime.MAXYEAR
MaxYear == 9999

IsLeap(y) == (y % 4 = 0 /\ y % 100 # 0) \/ y % 400 = 0

DaysInMonth(y, m) ==
    IF m = 2 THEN (IF IsLeap(y) THEN 29 ELSE 28)
    ELSE IF m \in {4, 6, 9, 11} THEN 30 ELSE 31

\* the directives of strptime: %Y is four digits, %m is 1[0-2]|0[1-9]|[1-9],
\* %d is 3[01]|[12]\d|0[1-9]|[1-9]| [1-9]
IsYearText(p) == Len(p) = 4 /\ AllDigits(p)

IsMonthText(p) ==
    /\ Len(p) \in {1, 2} /\ AllDigits(p)
    /\ DigitsValue(p) \in 1..12

IsDayText(p) ==
    \/ Len(p) \in {1, 2} /\ AllDigits(p) /\ DigitsValue(p) \in 1..31
    \/ Len(p) = 2 /\ p[1] = " " /\ p[2] \in Digits \ {"0"}

\* datetime.strptime(text, "%Y-%m-%d") succeeds
DateParses(text) ==
    LET p == Split(text, "-") IN
        /\ Len(p) = 3
        /\ IsYearText(p[1]) /\ IsMonthText(p[2]) /\ IsDayText(p[3])
        /\ DigitsValue(p[1]) >= 1
        /\ DigitsValue(SelectSeq(p[3], LAMBDA c : c \in Digits))
              <= DaysInMonth(DigitsValue(p[1]), DigitsValue(p[2]))

\* the date strptime returns, as <<year, month, day>>
ParseDate(text) ==
    LET p == Split(text, "-") IN
        <<DigitsValue(p[1]), DigitsValue(p[2]),
          DigitsValue(SelectSeq(p[3], LAMBDA c : c \in Digits))>>

NextDay(d) ==
    IF d[3] < DaysInMonth(d[1], d[2]) THEN <<d[1], d[2], d[3] + 1>>
    ELSE IF d[2] < 12 THEN <<d[1], d[2] + 1, 1>>
    ELSE <<d[1] + 1, 1, 1>>

\* date + timedelta(days=n), n >= 0, before the range check
RECURSIVE AddDays(_, _)
AddDays(d, n) ==
    IF d[3] + n <= DaysInMonth(d[1], d[2]) THEN <<d[1], d[2], d[3] + n>>
    ELSE AddDays(NextDay(<<d[1], d[2], DaysInMonth(d[1], d[2])>>),
                 n - (DaysInMonth(d[1], d[2]) - d[3] + 1))

\* strftime("%Y-%m-%d") for years of four digits
FormatDate(d) ==
    NatToText(d[1]) \o <<"-">> \o TwoDigits(d[2]) \o <<"-">> \o TwoDigits(d[3])

Return(v) == [ok |-> TRUE, value |-> v]

\* _calculate_due_date: only the ValueError of strptime is caught; None is a
\* TypeError and a sum beyond MAXYEAR an OverflowError
CalculateDueDate(date_text, n) ==
    IF date_text = None THEN Raise("TypeError")
    ELSE IF ~DateParses(date_text) THEN Return(date_text)
    ELSE IF AddDays(ParseDate(date_text), n)[1] > MaxYear
    THEN Raise("OverflowError")
    ELSE Return(FormatDate(AddDays(ParseDate(date_text), n)))

\* the default of the days parameter
DefaultDays == 30

-----------------------------------------------------------------------------
(* generate_invoice_html *)

\* the keys of the replacements dictionary, in insertion order
ReplacementKeys ==
    <<<<"{", "i", "n", "v", "o", "i", "c", "e", "_", "n", "o", "}">>,
      <<"{", "g", "e", "n", "e", "r", "a", "t", "e", "d", "_", "d", "a",
        "t", "e", "}">>,
      <<"{", "d", "a", "t", "e", "}">>,
      <<"{", "d", "u", "e", "_", "d", "a", "t", "e", "}">>,
      <<"{", "b", "i", "l", "l", "_", "t", "o", "}">>,
      <<"{", "c", "o", "n", "t", "a", "c", "t", "_", "n", "o", "}">>,
      <<"{", "b", "i", "l", "l", "i", "n", "g", "_", "a", "d", "d", "r",
        "e", "s", "s", "}">>,
      <<"{", "i", "t", "e", "m", "s", "_", "r", "o", "w", "s", "}">>,
      <<"{", "s", "u", "b", "t", "o", "t", "a", "l", "}">>,
      <<"{", "t", "a", "x", "_", "a", "m", "o", "u", "n", "t", "}">>,
      <<"{", "t", "o", "t", "a", "l", "_", "b", "i", "l", "l", "}">>,
      <<"{", "p", "a", "y", "m", "e", "n", "t", "_", "m", "e", "t", "h",
        "o", "d", "}">>,
      <<"{", "s", "t", "a", "t", "u", "s", "}">>,
      <<"_", "_", "s", "t", "a", "t", "u", "s", "_", "c", "o", "l", "o",
        "r", "_", "_">>>>

\* the currency sign the amounts are prefixed with
CurrencySymbol == "<taka>"

\* the fixed markup of one table row of _generate_items_html; each piece is
\* kept as one element, it holds no character of any replacement key
RowOpen == "<tr><td class=product-name>"

QuantityCell == "</td><td class=text-center>"

MoneyCell == "</td><td class=text-right font-mono>"

RowClose == "</td></tr>"

Abs(n) == IF n < 0 THEN -n ELSE n

\* str(n) for an integer
IntToText(n) == (IF n < 0 THEN <<"-">> ELSE <<>>) \o NatToText(Abs(n))

\* f"{x:.2f}" for an amount x kept in hundredths
FormatAmount(c) ==
    (IF c < 0 THEN <<"-">> ELSE <<>>)
        \o NatToText(Abs(c) \div PriceScale) \o <<".">>
        \o TwoDigits(Abs(c) % PriceScale)

Money(c) == <<CurrencySymbol>> \o FormatAmount(c)

\* a table row whose last cell repeats the unit price
ItemRowHtmlPriceTwice(item) ==
    <<RowOpen>> \o item.product
        \o <<QuantityCell>> \o IntToText(item.quantity)
        \o <<MoneyCell>> \o Money(item.price)
        \o <<MoneyCell>> \o Money(item.price)
        \o <<RowClose>>

\* the table row of one item
ItemRowHtml(item) ==
    <<RowOpen>> \o item.product
        \o <<QuantityCell>> \o IntToText(item.quantity)
        \o <<MoneyCell>> \o Money(item.price)
        \o <<MoneyCell>> \o Money(ItemTotal(item))
        \o <<RowClose>>

\* _generate_items_html
RECURSIVE GenerateItemsHtml(_)
GenerateItemsHtml(items) ==
    IF items = <<>> THEN <<>>
    ELSE ItemRowHtml(Head(items)) \o GenerateItemsHtml(Tail(items))

Overdue == <<"O", "v", "e", "r", "d", "u", "e">>

Draft == <<"D", "r", "a", "f", "t">>

\* status_colors.get(status, "#64748b")
StatusColor(status) ==
    IF status = Paid THEN <<"#10b981">>
    ELSE IF status = Pending THEN <<"#f59e0b">>
    ELSE IF status = Overdue THEN <<"#ef4444">>
    ELSE <<"#64748b">>

\* datetime.now().strftime("%Y-%m-%d %H")
GeneratedDateWithHour(clock) ==
    FormatDate(clock.date) \o <<" ">> \o TwoDigits(clock.hour)

\* datetime.now().strftime("%Y-%m-%d")
GeneratedDate(clock) == FormatDate(clock.date)

\* the values of the replacements dictionary, in the order of its keys
ReplacementValues(inv, clock, items_html, due) ==
    <<inv.invoice_no,
      GeneratedDate(clock),
      inv.date,
      due,
      inv.bill_to,
      inv.contact_no,
      inv.billing_address,
      items_html,
      Money(Subtotal(inv)),
      Money(TaxAmount(inv)),
      Money(TotalAmount(inv)),
      inv.payment_method,
      inv.status,
      StatusColor(inv.status)>>

StartsWith(s, prefix) ==
    Len(s) >= Len(prefix) /\ SubSeq(s, 1, Len(prefix)) = prefix

\* str.replace(old, new) for a non-empty old: leftmost, non-overlapping
\* the positions at which old occurs in s
Occurrences(s, old) ==
    {k \in 1..(Len(s) - Len(old) + 1) :
        SubSeq(s, k, k + Len(old) - 1) = old}

RECURSIVE ReplaceAll(_, _, _)
ReplaceAll(s, old, new) ==
    IF Occurrences(s, old) = {} THEN s
    ELSE LET i == CHOOSE k \in Occurrences(s, old) :
                      \A j \in Occurrences(s, old) : k <= j
         IN  SubSeq(s, 1, i - 1) \o new
                 \o ReplaceAll(SubSeq(s, i + Len(old), Len(s)), old, new)

\* the loop over replacements.items(): the keys of order, one after another
RECURSIVE ApplyReplacements(_, _, _, _)
ApplyReplacements(text, keys, values, order) ==
    IF order = <<>> THEN text
    ELSE ApplyReplacements(
            ReplaceAll(text, keys[Head(order)], values[Head(order)]),
            keys, values, Tail(order))

\* dictionary order
CodeOrder == [i \in 1..Len(ReplacementKeys) |-> i]

\* what generate_invoice_html raises for an invoice once the template is
\* loaded: the exception of _calculate_due_date, or the TypeError of
\* str.replace for a None value
RenderException(inv) ==
    IF ~CalculateDueDate(inv.date, DefaultDays).ok
    THEN CalculateDueDate(inv.date, DefaultDays).exc
    ELSE IF \E c \in Range(ScalarColumns) \cup {"status"} : inv[c] = None
    THEN "TypeError"
    ELSE "none"

\* generate_invoice_html on the loaded template text, at the time clock
GenerateInvoiceHtml(tpl, inv, clock) ==
    IF RenderException(inv) # "none" THEN Raise(RenderException(inv))
    ELSE LET items_html == GenerateItemsHtml(inv.items)
             due        == CalculateDueDate(inv.date, DefaultDays).value
         IN  [ok         |-> TRUE,
              html       |-> ApplyReplacements(tpl, ReplacementKeys,
                                ReplacementValues(inv, clock, items_html, due),
                                CodeOrder),
              items_html |-> items_html,
              due_date   |-> due,
              at         |-> clock]

-----------------------------------------------------------------------------
(* process_csv *)

EmptyResults ==
    [generated_pdfs     |-> <<>>,
     generated_previews |-> <<>>,
     errors             |-> <<>>,
     total_processed    |-> 0,
     total_amount       |-> 0]

\* os.path.join(self.output_dir, filename)
OutputPath(filename) == <<"output_dir/">> \o filename

\* save_html_preview: the file the preview of invoice_no is written to
PreviewPath(invoice_no) ==
    OutputPath(<<"preview_">> \o Replace(invoice_no, "/", "_") \o <<".html">>)

\* process_csv: pdf_filename
PdfFilename(invoice_no) ==
    <<"invoice_">> \o Replace(invoice_no, "/", "_") \o <<".pdf">>

\* generate_invoice_html raises: the template cannot be loaded, or a value
\* handed to strptime / str.replace is None
RenderError(inv, template_ok) ==
    IF ~template_ok THEN "FileNotFoundError" ELSE RenderException(inv)

\* generate_pdf returning output_path from its except branch as well
GeneratePdfAlwaysPath(filename, available, renderer_ok) ==
    IF ~available THEN None ELSE OutputPath(filename)

\* generate_pdf: the path written, or None without the capability or when
\* the renderer raises
GeneratePdf(filename, available, renderer_ok) ==
    IF ~available THEN None
    ELSE IF renderer_ok THEN OutputPath(filename)
    ELSE None

\* "Error processing row {row_num}: {e}" / "Error reading CSV file: {e}"
RowError(n, e) == [row |-> n, exc |-> e]

ReadingError == [row |-> 0, exc |-> "read"]

WriteFile(fs, path, n) ==
    [p \in DOMAIN fs \cup {path} |-> IF p = path THEN n ELSE fs[p]]

\* one iteration of the loop over the reader, for the next line r of the
\* file; template_ok, write_ok and renderer_ok are what the template load,
\* the preview write and the PDF renderer do when this row reaches them
RowOutcome(res, fs, n, r, available, template_ok, write_ok, renderer_ok) ==
    LET p == ParseCsvRow(r) IN
    IF ~p.ok
    THEN [results |-> [res EXCEPT !.errors = Append(@, RowError(n, p.exc))],
          files   |-> fs,
          entry   |-> [stage |-> "parse", exc |-> p.exc, io_failed |-> FALSE,
                       pdf_calls |-> 0, pdf_failed |-> FALSE, total |-> 0,
                       invoice_no |-> <<>>]]
    ELSE
    LET inv     == p.invoice
        counted == [res EXCEPT !.total_processed = @ + 1,
                               !.total_amount = @ + TotalAmount(inv)]
        rerr    == RenderError(inv, template_ok)
        base    == [stage |-> "done", exc |-> "none", io_failed |-> FALSE,
                    pdf_calls |-> 0, pdf_failed |-> FALSE,
                    total |-> TotalAmount(inv), invoice_no |-> inv.invoice_no]
    IN
    IF rerr # "none"
    THEN [results |-> [counted EXCEPT !.errors = Append(@, RowError(n, rerr))],
          files   |-> fs,
          entry   |-> [base EXCEPT !.stage = "render", !.exc = rerr,
                                   !.io_failed = ~template_ok]]
    ELSE IF ~write_ok
    THEN [results |-> [counted EXCEPT !.errors = Append(@, RowError(n, "OSError"))],
          files   |-> fs,
          entry   |-> [base EXCEPT !.stage = "save", !.exc = "OSError",
                                   !.io_failed = TRUE]]
    ELSE
    LET preview_path == PreviewPath(inv.invoice_no)
        previewed    == [counted EXCEPT
                            !.generated_previews = Append(@, preview_path)]
        fs1          == WriteFile(fs, preview_path, n)
        pdf_path     == GeneratePdf(PdfFilename(inv.invoice_no), available,
                                    renderer_ok)
        called       == [base EXCEPT
                            !.pdf_calls = IF available THEN 1 ELSE 0,
                            !.pdf_failed = available /\ ~renderer_ok]
    IN
    IF pdf_path # None
    THEN [results |-> [previewed EXCEPT
                          !.generated_pdfs = Append(@, pdf_path)],
          files   |-> WriteFile(fs1, pdf_path, n),
          entry   |-> called]
    ELSE [results |-> previewed,
          files   |-> fs1,
          entry   |-> called]

\* the lines of the input files of a batch
BatchItems ==
    {<<<<"P">>, <<"2">>, <<"1", ".", "5", "0">>>>,
     <<<<"P", "|", "Q">>, <<"1", "|", "x">>, <<"2">>>>,
     <<<<"P">>, <<"1", "|", "x">>, <<"2">>>>}

BatchInvoiceNos == {<<"A", "/", "B">>, <<"A", "_", "B">>, <<>>}

BatchData ==
    {[PlainData EXCEPT !.invoice_no = i, !.product = t[1], !.quantity = t[2],
                       !.price = t[3]] :
        i \in BatchInvoiceNos, t \in BatchItems}

NotCalled == Raise("<not called>")

NoFiles == [p \in {} |-> 0]

\* process_csv whose outer handler drops the error of a failed open
EnterSwallow(file, header) ==
    IF file = "missing"
    THEN [pc |-> "raised", results |-> EmptyResults, fieldnames |-> AllColumns]
    ELSE IF file = "unopenable"
    THEN [pc |-> "returned", results |-> EmptyResults,
          fieldnames |-> AllColumns]
    ELSE [pc |-> "rows", results |-> EmptyResults, fieldnames |-> header]

\* process_csv up to the loop: a missing file raises FileNotFoundError
\* before results exists; a file that cannot be opened is reported in results
\* by the outer handler; otherwise the reader is created on the header
Enter(file, header) ==
    IF file = "missing"
    THEN [pc |-> "raised", results |-> EmptyResults, fieldnames |-> AllColumns]
    ELSE IF file = "unopenable"
    THEN [pc |-> "returned",
          results |-> [EmptyResults EXCEPT !.errors = <<ReadingError>>],
          fieldnames |-> AllColumns]
    ELSE [pc |-> "rows", results |-> EmptyResults, fieldnames |-> header]

Start ==
    /\ pc = "idle"
    /\ \E header \in Headers :
        LET e == Enter(csv_file, header)
        IN  /\ pc' = e.pc
            /\ results' = e.results
            /\ fieldnames' = e.fieldnames
    /\ UNCHANGED <<row, parsed, csv_file, row_num, files,
                   weasyprint_available, hist>>
    /\ UNCHANGED <<renderVars, dueVars, validateVars>>

\* the body of "for row_num, row in enumerate(reader, 1)"
ProcessRow ==
    /\ pc = "rows"
    /\ row_num < MaxRows
    /\ \E r \in RowsOf(fieldnames, BatchData),
          template_ok \in BOOLEAN, write_ok \in BOOLEAN, renderer_ok \in BOOLEAN :
        LET o == RowOutcome(results, files, row_num + 1, r,
                            weasyprint_available, template_ok, write_ok,
                            renderer_ok)
        IN  /\ results' = o.results
            /\ files' = o.files
            /\ hist' = Append(hist, o.entry)
    /\ row_num' = row_num + 1
    /\ UNCHANGED <<row, parsed, csv_file, pc, fieldnames,
                   weasyprint_available>>
    /\ UNCHANGED <<renderVars, dueVars, validateVars>>

\* an outer handler that starts the outcome afresh before reporting
ReadErrorReset ==
    /\ pc = "rows"
    /\ results' = [EmptyResults EXCEPT !.errors = <<ReadingError>>]
    /\ pc' = "returned"
    /\ UNCHANGED <<row, parsed, csv_file, fieldnames, row_num, files,
                   weasyprint_available, hist>>
    /\ UNCHANGED <<renderVars, dueVars, validateVars>>

\* the reader raises while the file is read (decoding, csv.Error): the
\* outer handler reports it and the call returns
ReadError ==
    /\ pc = "rows"
    /\ results' = [results EXCEPT !.errors = Append(@, ReadingError)]
    /\ pc' = "returned"
    /\ UNCHANGED <<row, parsed, csv_file, fieldnames, row_num, files,
                   weasyprint_available, hist>>
    /\ UNCHANGED <<renderVars, dueVars, validateVars>>

\* the reader is exhausted: return results
EndOfFile ==
    /\ pc = "rows"
    /\ pc' = "returned"
    /\ UNCHANGED <<row, parsed, csv_file, fieldnames, row_num, results,
                   files, weasyprint_available, hist>>
    /\ UNCHANGED <<renderVars, dueVars, validateVars>>

\* the invoice of the line PlainData
PlainInvoice ==
    ParseCsvRow(DictRow(AllColumns,
                        Cells(AllColumns, PlainData, Len(AllColumns)))).invoice

FirstDay == <<2025, 12, 31>>

\* no rendering in progress
RenderIdle ==
    /\ template = <<>>
    /\ invoice_data = PlainInvoice
    /\ now = [date |-> FirstDay, hour |-> 9]
    /\ rendered = <<>>

\* no due date computation in progress
DueIdle ==
    /\ issue_date = <<>>
    /\ days = 0
    /\ due_date = NotCalled

Init ==
    /\ ValidateIdle
    /\ RenderIdle
    /\ DueIdle
    /\ row = DictRow(AllColumns, Cells(AllColumns, PlainData, Len(AllColumns)))
    /\ parsed = NotCalled
    /\ csv_file \in {"missing", "unopenable", "readable"}
    /\ pc = "idle"
    /\ fieldnames = AllColumns
    /\ row_num = 0
    /\ results = EmptyResults
    /\ files = NoFiles
    /\ weasyprint_available \in BOOLEAN
    /\ hist = <<>>

Next == Start \/ ProcessRow \/ ReadError \/ EndOfFile

Spec == Init /\ [][Next]_vars

-----------------------------------------------------------------------------
(* _parse_csv_row applied to one row *)

InitParse ==
    /\ ValidateIdle
    /\ RenderIdle
    /\ DueIdle
    /\ row \in ParseRows
    /\ parsed = NotCalled
    /\ csv_file = "readable"
    /\ pc = "idle"
    /\ fieldnames = AllColumns
    /\ row_num = 0
    /\ results = EmptyResults
    /\ files = NoFiles
    /\ weasyprint_available = FALSE
    /\ hist = <<>>

ParseStep ==
    /\ parsed = NotCalled
    /\ parsed' = ParseCsvRow(row)
    /\ UNCHANGED <<row, csv_file, pc, fieldnames, row_num, results, files,
                   weasyprint_available, hist>>
    /\ UNCHANGED <<renderVars, dueVars, validateVars>>

NextParse == ParseStep

SpecParse == InitParse /\ [][NextParse]_vars

-----------------------------------------------------------------------------
(* _calculate_due_date applied to one issue date *)

DueYears == {<<"2", "0", "2", "4">>, <<"2", "0", "2", "5">>,
             <<"9", "9", "9", "9">>}

DueMonths == {<<"0", "1">>, <<"0", "2">>, <<"1", "2">>, <<"2">>,
              <<"1", "3">>}

DueDaysOfMonth == {<<"0", "1">>, <<"1", "5">>, <<"2", "9">>, <<"3", "0">>,
                   <<"3", "1">>, <<" ", "5">>}

\* issue dates: well-formed ones, impossible calendar days, other formats
DateTexts ==
    {y \o <<"-">> \o m \o <<"-">> \o d :
        y \in DueYears, m \in DueMonths, d \in DueDaysOfMonth}
    \cup {<<>>,
          <<"d">>,
          <<"1", "5", "/", "0", "1", "/", "2", "0", "2", "5">>,
          <<"2", "0", "2", "5", "0", "1", "1", "5">>,
          <<" ", "2", "0", "2", "5", "-", "0", "1", "-", "1", "5">>,
          <<"2", "0", "2", "5", "-", "0", "1", "-", "1", "5", " ">>,
          <<"2", "0", "2", "5", "-", "0", "1">>}

GracePeriods == {0, 1, DefaultDays}

BatchIdle ==
    /\ csv_file = "readable"
    /\ pc = "idle"
    /\ fieldnames = AllColumns
    /\ row_num = 0
    /\ results = EmptyResults
    /\ files = NoFiles
    /\ weasyprint_available = FALSE
    /\ hist = <<>>

ParseIdle ==
    /\ row = DictRow(AllColumns, Cells(AllColumns, PlainData, Len(AllColumns)))
    /\ parsed = NotCalled

InitDue ==
    /\ ValidateIdle
    /\ BatchIdle
    /\ ParseIdle
    /\ RenderIdle
    /\ issue_date \in DateTexts
    /\ days \in GracePeriods
    /\ due_date = NotCalled

DueStep ==
    /\ due_date = NotCalled
    /\ due_date' = CalculateDueDate(issue_date, days)
    /\ UNCHANGED <<parseVars, batchVars, validateVars, renderVars,
                   issue_date, days>>

NextDue == DueStep

SpecDue == InitDue /\ [][NextDue]_vars

-----------------------------------------------------------------------------
(* process_csv on files whose rows repeat invoice numbers *)

MaxDupRows == 3

DupInvoiceNos == {<<"A", "/", "B">>, <<"A", "_", "B">>}

DupData == {[PlainData EXCEPT !.invoice_no = i] : i \in DupInvoiceNos}

InitDup ==
    /\ ValidateIdle
    /\ RenderIdle
    /\ DueIdle
    /\ ParseIdle
    /\ csv_file = "readable"
    /\ pc = "idle"
    /\ fieldnames = AllColumns
    /\ row_num = 0
    /\ results = EmptyResults
    /\ files = NoFiles
    /\ weasyprint_available \in BOOLEAN
    /\ hist = <<>>

\* process_csv up to the loop, on a file with the complete header
StartDup ==
    /\ pc = "idle"
    /\ LET e == Enter(csv_file, AllColumns)
       IN  /\ pc' = e.pc
           /\ results' = e.results
           /\ fieldnames' = e.fieldnames
    /\ UNCHANGED <<row, parsed, csv_file, row_num, files,
                   weasyprint_available, hist>>
    /\ UNCHANGED <<renderVars, dueVars, validateVars>>

\* the body of "for row_num, row in enumerate(reader, 1)"
ProcessDupRow ==
    /\ pc = "rows"
    /\ row_num < MaxDupRows
    /\ \E r \in RowsOf(fieldnames, DupData),
          template_ok \in BOOLEAN, write_ok \in BOOLEAN, renderer_ok \in BOOLEAN :
        LET o == RowOutcome(results, files, row_num + 1, r,
                            weasyprint_available, template_ok, write_ok,
                            renderer_ok)
        IN  /\ results' = o.results
            /\ files' = o.files
            /\ hist' = Append(hist, o.entry)
    /\ row_num' = row_num + 1
    /\ UNCHANGED <<row, parsed, csv_file, pc, fieldnames,
                   weasyprint_available>>
    /\ UNCHANGED <<renderVars, dueVars, validateVars>>

NextDup == StartDup \/ ProcessDupRow \/ ReadError \/ EndOfFile

SpecDup == InitDup /\ [][NextDup]_vars

-----------------------------------------------------------------------------
(* generate_invoice_html applied to one template and one invoice *)

MaxRenders == 2

InvoiceNoKey == <<"{", "i", "n", "v", "o", "i", "c", "e", "_", "n", "o", "}">>

GeneratedDateKey ==
    <<"{", "g", "e", "n", "e", "r", "a", "t", "e", "d", "_", "d", "a", "t",
      "e", "}">>

BillToKey == <<"{", "b", "i", "l", "l", "_", "t", "o", "}">>

ItemsRowsKey == <<"{", "i", "t", "e", "m", "s", "_", "r", "o", "w", "s", "}">>

TotalBillKey == <<"{", "t", "o", "t", "a", "l", "_", "b", "i", "l", "l", "}">>

StatusKey == <<"{", "s", "t", "a", "t", "u", "s", "}">>

\* the pieces templates are made of: markup, the placeholders of known
\* fields, a placeholder that names no field, an opening brace
TemplatePieces ==
    {<<>>,
     <<"<", "p", ">">>,
     <<"{", "f", "o", "o", "}">>,
     <<"{">>,
     InvoiceNoKey, GeneratedDateKey, BillToKey, ItemsRowsKey, TotalBillKey,
     StatusKey}

Templates == {a \o b : a \in TemplatePieces, b \in TemplatePieces}

\* the item cells of the rendered lines
RenderItems ==
    {<<<<"W", "e", "b", " ", "D", "e", "v", "e", "l", "o", "p", "m", "e",
         "n", "t", "|", "H", "o", "s", "t", "i", "n", "g">>,
       <<"1", "|", "1", "2">>,
       <<"1", "5", "0", "0", ".", "0", "0", "|", "2", "5", ".", "0", "0">>>>,
     <<<<"P", "|", "Q">>, <<"2", "|", "1">>, <<"1", ".", "5", "0", "|", "-", ".", "5">>>>}

RenderData ==
    {[PlainData EXCEPT !.invoice_no = i, !.bill_to = b,
                       !.date = <<"2", "0", "2", "5", "-", "0", "1", "-",
                                 "1", "5">>,
                       !.product = t[1], !.quantity = t[2], !.price = t[3]] :
        i \in {<<"A">>, <<"s", "t", "a", "t", "u", "s", "}">>},
        b \in {<<"J">>, StatusKey},
        t \in RenderItems}

\* the invoices handed to generate_invoice_html
RenderInvoices ==
    {ParseCsvRow(DictRow(AllColumns,
                         Cells(AllColumns, d, Len(AllColumns)))).invoice :
        d \in RenderData}

\* the times of day and the days on which datetime.now() is read
ClockTimes ==
    {[date |-> d, hour |-> h] : d \in {FirstDay, NextDay(FirstDay)},
                                h \in {9, 17}}

Later(t, u) ==
    \/ t.date # u.date /\ u.date = FirstDay
    \/ t.date = u.date /\ t.hour > u.hour

InitRender ==
    /\ ValidateIdle
    /\ BatchIdle
    /\ ParseIdle
    /\ DueIdle
    /\ template \in Templates
    /\ invoice_data \in RenderInvoices
    /\ now \in ClockTimes
    /\ rendered = <<>>

\* one call of generate_invoice_html
Render ==
    /\ Len(rendered) < MaxRenders
    /\ rendered' = Append(rendered,
                          GenerateInvoiceHtml(template, invoice_data, now))
    /\ UNCHANGED <<parseVars, batchVars, validateVars, dueVars, template,
                   invoice_data, now>>

\* time passes between two calls
Tick ==
    /\ \E t \in ClockTimes : Later(t, now) /\ now' = t
    /\ UNCHANGED <<parseVars, batchVars, validateVars, dueVars, template,
                   invoice_data, rendered>>

NextRender == Render \/ Tick

SpecRender == InitRender /\ [][NextRender]_vars

-----------------------------------------------------------------------------
(* validate_csv_structure and process_csv on the same file *)

MaxLines == 2

\* required_columns
RequiredColumns == SubSeq(AllColumns, 1, 9)

\* row.get(col, "")
Get(r, col) == IF col \in DOMAIN r THEN r[col] ELSE <<>>

Issue(n, kind) == [row |-> n, kind |-> kind]

\* "CSV file not found: ..."
NotFoundIssue == Issue(0, "not found")

\* "Missing required columns: ..."
MissingColumnsIssue == Issue(0, "columns")

\* "Error reading CSV file: ..."
ReadingIssue == Issue(0, "read")

\* some token of the cell is rejected by int()
InvalidQuantity(cell) ==
    \E i \in 1..Len(Split(cell, "|")) :
        ~IsIntLiteral(Strip(Split(cell, "|")[i]))

\* some token of the cell is rejected by float()
InvalidPrice(cell) ==
    \E i \in 1..Len(Split(cell, "|")) :
        ~IsFloatLiteral(Strip(Split(cell, "|")[i]))

\* the checks of one row: the issues appended, and whether a check raised
\* something its own handler does not catch (strip or split of None)
CheckRow(n, r) ==
    LET invoice_no == Get(r, "invoice_no")
        bill_to    == Get(r, "bill_to")
        quantity   == Get(r, "quantity")
        price      == Get(r, "price")
        a == IF invoice_no # None /\ Strip(invoice_no) = <<>>
             THEN <<Issue(n, "invoice_no")>> ELSE <<>>
        b == IF bill_to # None /\ Strip(bill_to) = <<>>
             THEN a \o <<Issue(n, "bill_to")>> ELSE a
        c == IF quantity # None /\ InvalidQuantity(quantity)
             THEN b \o <<Issue(n, "quantity")>> ELSE b
        d == IF price # None /\ InvalidPrice(price)
             THEN c \o <<Issue(n, "price")>> ELSE c
    IN  IF invoice_no = None THEN [issues |-> <<>>, raised |-> TRUE]
        ELSE IF bill_to = None THEN [issues |-> a, raised |-> TRUE]
        ELSE IF quantity = None THEN [issues |-> b, raised |-> TRUE]
        ELSE IF price = None THEN [issues |-> c, raised |-> TRUE]
        ELSE [issues |-> d, raised |-> FALSE]

\* the cells of the lines of the validated files
ValidateData ==
    {PlainData,
     [PlainData EXCEPT !.invoice_no = <<" ">>],
     [PlainData EXCEPT !.bill_to = <<>>],
     [PlainData EXCEPT !.quantity = <<"x">>],
     [PlainData EXCEPT !.quantity = <<"1", "|", "x">>],
     [PlainData EXCEPT !.price = <<"x">>]}

LinesOf(header) ==
    UNION {[1..n -> RowsOf(header, ValidateData)] : n \in 0..MaxLines}

ValidateFiles ==
    UNION {{[header |-> h, lines |-> ls] : ls \in LinesOf(h)} :
              h \in Headers}

InitValidate ==
    /\ RenderIdle
    /\ DueIdle
    /\ ParseIdle
    /\ csv_file \in {"missing", "unopenable", "readable"}
    /\ csv_content \in ValidateFiles
    /\ csv_file # "readable" => csv_content.lines = <<>>
    /\ issues = <<>>
    /\ validate_pc = "idle"
    /\ validate_row_num = 0
    /\ pc = "idle"
    /\ fieldnames = AllColumns
    /\ row_num = 0
    /\ results = EmptyResults
    /\ files = NoFiles
    /\ weasyprint_available = FALSE
    /\ hist = <<>>

\* validate_csv_structure up to the loop: a missing file and a file that
\* cannot be opened give one issue; otherwise the header is checked
ValidateEnter ==
    /\ validate_pc = "idle"
    /\ IF csv_file = "missing"
       THEN issues' = <<NotFoundIssue>> /\ validate_pc' = "returned"
       ELSE IF csv_file = "unopenable"
       THEN issues' = <<ReadingIssue>> /\ validate_pc' = "returned"
       ELSE /\ issues' = IF Range(RequiredColumns)
                               \ Range(csv_content.header) # {}
                         THEN <<MissingColumnsIssue>> ELSE <<>>
            /\ validate_pc' = "rows"
    /\ UNCHANGED <<parseVars, batchVars, renderVars, dueVars, csv_content,
                   validate_row_num>>

\* the body of the loop over the reader; an exception no inner handler
\* catches ends the call in the outer handler
ValidateRow ==
    /\ validate_pc = "rows"
    /\ validate_row_num < Len(csv_content.lines)
    /\ LET c == CheckRow(validate_row_num + 1,
                         csv_content.lines[validate_row_num + 1])
       IN  IF c.raised
           THEN /\ issues' = issues \o c.issues \o <<ReadingIssue>>
                /\ validate_pc' = "returned"
           ELSE /\ issues' = issues \o c.issues
                /\ validate_pc' = validate_pc
    /\ validate_row_num' = validate_row_num + 1
    /\ UNCHANGED <<parseVars, batchVars, renderVars, dueVars, csv_content>>

\* the reader is exhausted: return issues
ValidateReturn ==
    /\ validate_pc = "rows"
    /\ validate_row_num = Len(csv_content.lines)
    /\ validate_pc' = "returned"
    /\ UNCHANGED <<parseVars, batchVars, renderVars, dueVars, csv_content,
                   issues, validate_row_num>>

\* process_csv up to the loop, on the validated file
StartFile ==
    /\ validate_pc = "returned"
    /\ pc = "idle"
    /\ LET e == Enter(csv_file, csv_content.header)
       IN  /\ pc' = e.pc
           /\ results' = e.results
           /\ fieldnames' = e.fieldnames
    /\ UNCHANGED <<row, parsed, csv_file, row_num, files,
                   weasyprint_available, hist>>
    /\ UNCHANGED <<renderVars, dueVars, validateVars>>

\* the body of "for row_num, row in enumerate(reader, 1)" on the next line
\* of the file
ProcessFileRow ==
    /\ pc = "rows"
    /\ row_num < Len(csv_content.lines)
    /\ \E write_ok \in BOOLEAN :
        LET o == RowOutcome(results, files, row_num + 1,
                            csv_content.lines[row_num + 1],
                            weasyprint_available, TRUE, write_ok, TRUE)
        IN  /\ results' = o.results
            /\ files' = o.files
            /\ hist' = Append(hist, o.entry)
    /\ row_num' = row_num + 1
    /\ UNCHANGED <<row, parsed, csv_file, pc, fieldnames,
                   weasyprint_available>>
    /\ UNCHANGED <<renderVars, dueVars, validateVars>>

\* the reader is exhausted: return results
EndOfLines ==
    /\ pc = "rows"
    /\ row_num = Len(csv_content.lines)
    /\ pc' = "returned"
    /\ UNCHANGED <<row, parsed, csv_file, fieldnames, row_num, results,
                   files, weasyprint_available, hist>>
    /\ UNCHANGED <<renderVars, dueVars, validateVars>>

NextValidate ==
    \/ ValidateEnter \/ ValidateRow \/ ValidateReturn
    \/ StartFile \/ ProcessFileRow \/ EndOfLines

SpecValidate == InitValidate /\ [][NextValidate]_vars

-----------------------------------------------------------------------------
(* Properties of _parse_csv_row, checked under SpecParse *)

Called == parsed # NotCalled

\* column c of the row holds text
HasText(c) == c \in DOMAIN row /\ row[c] # None

\* column c holds text that is empty after trimming
Blank(c) == HasText(c) /\ Strip(row[c]) = <<>>

\* the '|'-separated tokens of column c
Tokens(c) == Split(row[c], "|")

\* a token that is no number
NonNumeric(tok) == ~IsFloatLiteral(tok)

\* C5: parsing a row whose invoice_no or bill_to is empty after trimming
\* whitespace fails with a row-level error
C5_BlankIdentityFails ==
    (Called /\ (Blank("invoice_no") \/ Blank("bill_to"))) => ~parsed.ok

\* C6 as stated: a parsed row has one item per product token, item i takes
\* product token i itself, quantity token i else 1, price token i else 0.0
C6_ItemTakesProductToken ==
    (Called /\ parsed.ok) =>
        LET items == parsed.invoice.items IN
            /\ Len(items) = Len(Tokens("product"))
            /\ \A i \in 1..Len(items) :
                /\ items[i].product = Tokens("product")[i]
                /\ items[i].quantity =
                     IF i <= Len(Tokens("quantity"))
                     THEN IntOf(Tokens("quantity")[i]) ELSE 1
                /\ items[i].price =
                     IF i <= Len(Tokens("price"))
                     THEN FloatOf(Tokens("price")[i]) ELSE 0

\* C6 amended: a parsed row has one item per product token, in input order;
\* item i takes product token i with surrounding whitespace trimmed,
\* quantity token i if it exists else 1, price token i if it exists else 0.0;
\* quantity and price tokens beyond the last product are ignored
C6_ItemTakesTrimmedProductToken ==
    (Called /\ parsed.ok) =>
        LET items == parsed.invoice.items IN
            /\ Len(items) = Len(Tokens("product"))
            /\ \A i \in 1..Len(items) :
                /\ items[i].product = Strip(Tokens("product")[i])
                /\ items[i].quantity =
                     IF i <= Len(Tokens("quantity"))
                     THEN IntOf(Tokens("quantity")[i]) ELSE 1
                /\ items[i].price =
                     IF i <= Len(Tokens("price"))
                     THEN FloatOf(Tokens("price")[i]) ELSE 0

\* a parsed row of two products, the second written with blanks around it,
\* with one quantity token and one price token
C6_Witness ==
    /\ Called /\ parsed.ok
    /\ Len(Tokens("product")) = 2
    /\ Tokens("product")[2] # Strip(Tokens("product")[2])
    /\ Len(Tokens("quantity")) = 1
    /\ Len(Tokens("price")) = 1
    /\ parsed.invoice.items[2].quantity = 1
    /\ parsed.invoice.items[2].price = 0

\* C7 as stated: parsing fails whenever the quantity or the price field
\* holds a non-numeric token at any position
C7_NonNumericAnywhereFails ==
    (Called /\ \A c \in Range(ItemColumns) : HasText(c)) =>
        ((\E c \in {"quantity", "price"} :
            \E i \in 1..Len(Tokens(c)) : NonNumeric(Tokens(c)[i]))
         => ~parsed.ok)

\* C7 amended: parsing fails whenever the quantity or the price field holds
\* a non-numeric token at a position that has a product token
C7_NonNumericAtProductFails ==
    (Called /\ \A c \in Range(ItemColumns) : HasText(c)) =>
        ((\E c \in {"quantity", "price"} :
            \E i \in 1..Len(Tokens(c)) :
                i <= Len(Tokens("product")) /\ NonNumeric(Tokens(c)[i]))
         => ~parsed.ok)

\* a row rejected for the price of its second product alone
C7_Witness ==
    /\ Called /\ ~parsed.ok
    /\ \A c \in Range(ItemColumns) : HasText(c)
    /\ Len(Tokens("product")) = 2
    /\ \A i \in 1..Len(Tokens("quantity")) : ~NonNumeric(Tokens("quantity")[i])
    /\ Len(Tokens("price")) = 2
    /\ ~NonNumeric(Tokens("price")[1])
    /\ NonNumeric(Tokens("price")[2])

\* C8: a parsed invoice has at least one item and every item has
\* quantity >= 0 and unit price >= 0
C8_ItemsNonNegative ==
    (Called /\ parsed.ok) =>
        /\ Len(parsed.invoice.items) >= 1
        /\ \A i \in 1..Len(parsed.invoice.items) :
            /\ parsed.invoice.items[i].quantity >= 0
            /\ parsed.invoice.items[i].price >= 0

\* C9: the status of a parsed invoice is "Pending" when the row has no
\* status column and when the status text is blank, else the status text
C9_StatusDefaultsToPending ==
    (Called /\ parsed.ok) =>
        /\ "status" \notin DOMAIN row => parsed.invoice.status = Pending
        /\ Blank("status") => parsed.invoice.status = Pending
        /\ (HasText("status") /\ ~Blank("status")) =>
              parsed.invoice.status = row["status"]

\* quantity x unit price of the first k items, added up
RECURSIVE SumOfProducts(_, _)
SumOfProducts(items, k) ==
    IF k = 0 THEN 0
    ELSE SumOfProducts(items, k - 1) + items[k].quantity * items[k].price

\* C18: for every parsed invoice, subtotal is the sum over its items of
\* quantity x unit price, tax_amount is 0 and total_amount is
\* subtotal + tax_amount, hence the subtotal
C18_Totals ==
    (Called /\ parsed.ok) =>
        /\ Subtotal(parsed.invoice)
              = SumOfProducts(parsed.invoice.items, Len(parsed.invoice.items))
        /\ TaxAmount(parsed.invoice) = 0
        /\ TotalAmount(parsed.invoice)
              = Subtotal(parsed.invoice) + TaxAmount(parsed.invoice)
        /\ TotalAmount(parsed.invoice) = Subtotal(parsed.invoice)

\* a parsed invoice of two items, 2 x 1.50 and 1 x 2.00
C18_Witness ==
    /\ Called /\ parsed.ok
    /\ Len(parsed.invoice.items) = 2
    /\ parsed.invoice.items[1].quantity = 2
    /\ parsed.invoice.items[1].price = 150
    /\ parsed.invoice.items[2].quantity = 1
    /\ parsed.invoice.items[2].price = 200
    /\ TotalAmount(parsed.invoice) = 500

-----------------------------------------------------------------------------
(* Properties of process_csv, checked under Spec *)

\* the rows read so far
RowNumbers == 1..Len(hist)

\* the rows that failed to parse
Malformed == {n \in RowNumbers : hist[n].stage = "parse"}

\* the rows whose preview was written
Previewed == {n \in RowNumbers : hist[n].stage = "done"}

\* process_csv returned after the last row of the file
RanToLastRow ==
    /\ pc = "returned"
    /\ csv_file = "readable"
    /\ \A k \in 1..Len(results.errors) : results.errors[k] # ReadingError

\* the elements of the set S of row numbers, in increasing order
RECURSIVE InOrder(_)
InOrder(S) ==
    IF S = {} THEN <<>>
    ELSE LET m == CHOOSE x \in S : \A y \in S : x <= y
         IN  <<m>> \o InOrder(S \ {m})

RECURSIVE SumOver(_)
SumOver(S) ==
    IF S = {} THEN 0
    ELSE LET m == CHOOSE x \in S : TRUE
         IN  hist[m].total + SumOver(S \ {m})

\* C1: when the template loads and the preview writes succeed for every
\* row, a batch of N rows of which exactly the rows M fail to parse returns
\* total_processed = N - |M|, one error per row of M with its row number in
\* input order, and previews for exactly the rows not in M
C1_PartialFailure ==
    (RanToLastRow /\ \A n \in RowNumbers : ~hist[n].io_failed) =>
        /\ results.total_processed = Len(hist) - Cardinality(Malformed)
        /\ [k \in 1..Len(results.errors) |-> results.errors[k].row]
              = InOrder(Malformed)
        /\ results.generated_previews =
              [k \in 1..Cardinality(RowNumbers \ Malformed) |->
                  PreviewPath(hist[InOrder(RowNumbers \ Malformed)[k]].invoice_no)]

C3_PdfUnavailable ==
    (pc = "returned" /\ ~weasyprint_available) =>
        /\ Len(results.generated_previews) = results.total_processed
        /\ results.generated_pdfs = <<>>
        /\ \A n \in RowNumbers : hist[n].pdf_calls = 0
        /\ \A k \in 1..Len(results.errors) :
              \/ results.errors[k] = ReadingError
              \/ results.errors[k].row \notin Previewed

\* C4: a row on which the available renderer fails is counted in
\* total_processed and total_amount, its preview path is recorded, no PDF
\* path and no error entry is appended for it, the renderer was invoked
\* once for it, and the loop goes on to the next row
C4_RendererFailureIsSilent ==
    [][(Len(hist') = Len(hist) + 1 /\ hist'[Len(hist')].pdf_failed) =>
          /\ results'.total_processed = results.total_processed + 1
          /\ results'.total_amount =
                results.total_amount + hist'[Len(hist')].total
          /\ results'.generated_previews =
                Append(results.generated_previews,
                       PreviewPath(hist'[Len(hist')].invoice_no))
          /\ results'.generated_pdfs = results.generated_pdfs
          /\ results'.errors = results.errors
          /\ hist'[Len(hist')].pdf_calls = 1
          /\ pc' = "rows"]_vars

\* the renderer failed on row 1 and row 2 was then processed with its PDF
C4_Witness ==
    /\ Len(hist) = 2
    /\ hist[1].pdf_failed
    /\ hist[2].stage = "done" /\ ~hist[2].pdf_failed
    /\ results.total_processed = 2
    /\ Len(results.generated_previews) = 2
    /\ Len(results.generated_pdfs) = 1
    /\ results.errors = <<>>

\* C10: a failed preview write is recorded as an error of its row and the
\* batch continues; at the end of a batch total_amount is the sum of the
\* invoice totals of exactly the rows that produced a preview and
\* total_processed equals the number of generated previews
C10_CountedAfterPreview ==
    /\ \A n \in RowNumbers :
          hist[n].stage = "save" =>
              \E k \in 1..Len(results.errors) : results.errors[k].row = n
    /\ pc = "returned" =>
          /\ results.total_amount = SumOver(Previewed)
          /\ results.total_processed = Len(results.generated_previews)

\* C11: a template that cannot be loaded is a batch-level error: the batch
\* returns an empty result (total_processed = 0, no generated paths) with a
\* single error entry, and the failure is never reported once per row
C11_TemplateErrorIsBatchLevel ==
    (\E n \in RowNumbers : hist[n].exc = "FileNotFoundError") =>
        /\ results.total_processed = 0
        /\ results.generated_previews = <<>>
        /\ results.generated_pdfs = <<>>
        /\ Len(results.errors) = 1
        /\ \A k \in 1..Len(results.errors) :
              results.errors[k].exc = "FileNotFoundError" =>
                  results.errors[k].row \notin RowNumbers

\* C13: two rows of one batch with distinct invoice numbers write their
\* previews to distinct paths, neither overwrites the other's file; the
\* recorded path is the one derived from the invoice number with every
\* "/" replaced by "_"
C13_DistinctNumbersDistinctPaths ==
    \A n \in Previewed, m \in Previewed :
        /\ \E k \in 1..Len(results.generated_previews) :
              results.generated_previews[k] =
                  <<"output_dir/", "preview_">>
                      \o [i \in 1..Len(hist[n].invoice_no) |->
                            IF hist[n].invoice_no[i] = "/" THEN "_"
                            ELSE hist[n].invoice_no[i]]
                      \o <<".html">>
        /\ hist[n].invoice_no # hist[m].invoice_no =>
              /\ PreviewPath(hist[n].invoice_no)
                    # PreviewPath(hist[m].invoice_no)
              /\ files[PreviewPath(hist[n].invoice_no)] # m

\* the rows that wrote a preview for the invoice number of row n
SameNumber(n) ==
    {m \in Previewed : hist[m].invoice_no = hist[n].invoice_no}

\* C14: when several rows of a batch carry the same invoice number, after
\* the batch the preview file at that invoice's path holds the rendering of
\* the last such row that was processed successfully
C14_LastWriterWins ==
    pc = "returned" =>
        \A n \in Previewed :
            Cardinality(SameNumber(n)) >= 2 =>
                /\ files[PreviewPath(hist[n].invoice_no)] \in SameNumber(n)
                /\ \A m \in SameNumber(n) :
                      files[PreviewPath(hist[n].invoice_no)] >= m

IsPrefix(s, t) == Len(s) <= Len(t) /\ SubSeq(t, 1, Len(s)) = s

\* the rows for which a PDF was written
WithPdf ==
    {n \in Previewed : hist[n].pdf_calls = 1 /\ ~hist[n].pdf_failed}

\* the errors of rows, without the batch-level entry of the outer handler
RowErrors(errors) == SelectSeq(errors, LAMBDA e : e # ReadingError)

\* C20: at every step of a batch the outcome only grows: total_processed
\* and the lengths of the lists never decrease, appended entries are never
\* changed or removed, every list is in input-row order, and
\* len(generated_pdfs) <= len(generated_previews) <= total_processed
C20_OutcomeOnlyGrows ==
    [][/\ results'.total_processed >= results.total_processed
       /\ IsPrefix(results.generated_previews, results'.generated_previews)
       /\ IsPrefix(results.generated_pdfs, results'.generated_pdfs)
       /\ IsPrefix(results.errors, results'.errors)
       /\ results'.generated_previews =
             [k \in 1..Cardinality(Previewed') |->
                 PreviewPath(hist'[InOrder(Previewed')[k]].invoice_no)]
       /\ results'.generated_pdfs =
             [k \in 1..Cardinality(WithPdf') |->
                 OutputPath(PdfFilename(hist'[InOrder(WithPdf')[k]].invoice_no))]
       /\ \A j \in 1..Len(RowErrors(results'.errors)),
             k \in 1..Len(RowErrors(results'.errors)) :
               j < k => RowErrors(results'.errors)[j].row
                          < RowErrors(results'.errors)[k].row
       /\ Len(results'.generated_pdfs) <= Len(results'.generated_previews)
       /\ Len(results'.generated_previews) <= results'.total_processed]_vars

\* the reader failed after two rows, one with a PDF and one with a preview
\* only, and one more outcome was appended to what the rows had left
C20_Witness ==
    /\ pc = "returned"
    /\ Len(hist) = 2
    /\ Len(results.generated_previews) = 2
    /\ Len(results.generated_pdfs) = 1
    /\ results.total_processed = 2
    /\ results.errors = <<ReadingError>>

-----------------------------------------------------------------------------
(* Properties of _calculate_due_date, checked under SpecDue *)

\* the number of days from 0001-01-01 to the date, plus one
Ordinal(d) ==
    LET y == d[1] - 1
        RECURSIVE Before(_)
        Before(m) == IF m = 1 THEN 0
                     ELSE DaysInMonth(d[1], m - 1) + Before(m - 1)
    IN  y * 365 + (y \div 4) - (y \div 100) + (y \div 400) + Before(d[2]) + d[3]

\* C19: the due date is the issue date plus the grace period in calendar
\* days when the issue date parses, the issue date text unchanged when it
\* does not, and computing it never fails
C19_DueDateNeverFails ==
    due_date # NotCalled =>
        /\ due_date.ok
        /\ DateParses(issue_date) =>
                /\ DateParses(due_date.value)
                /\ Ordinal(ParseDate(due_date.value))
                        = Ordinal(ParseDate(issue_date)) + days
        /\ ~DateParses(issue_date) => due_date.value = issue_date

-----------------------------------------------------------------------------
(* Properties of generate_invoice_html, checked under SpecRender *)

Reverse(s) == [i \in 1..Len(s) |-> s[Len(s) + 1 - i]]

\* the orders the replacements are compared in
Orders == {CodeOrder, Reverse(CodeOrder)}

\* the rendering of the call r with the replacements applied in order
RenderedInOrder(r, order) ==
    ApplyReplacements(template, ReplacementKeys,
                      ReplacementValues(invoice_data, r.at, r.items_html,
                                        r.due_date),
                      order)

\* C12: for every template and invoice the rendered output is the same
\* whatever order the placeholder replacements are applied in
C12_OrderIndependent ==
    \A k \in 1..Len(rendered) :
        /\ rendered[k].ok
        /\ \A order \in Orders :
              RenderedInOrder(rendered[k], order) = rendered[k].html

Slot == "<value>"

\* the template as literal characters and slots, one slot for every
\* occurrence of a known placeholder
RECURSIVE Tokenise(_)
Tokenise(tpl) ==
    IF tpl = <<>> THEN <<>>
    ELSE IF \E i \in 1..Len(ReplacementKeys) : StartsWith(tpl, ReplacementKeys[i])
    THEN LET i == CHOOSE j \in 1..Len(ReplacementKeys) :
                      StartsWith(tpl, ReplacementKeys[j])
         IN  <<Slot>> \o Tokenise(SubSeq(tpl, Len(ReplacementKeys[i]) + 1,
                                         Len(tpl)))
    ELSE <<Head(tpl)>> \o Tokenise(Tail(tpl))

\* text keeps the literal characters of tokens, in order, with any text
\* at all in the place of every slot
RECURSIVE Matches(_, _)
Matches(tokens, text) ==
    IF tokens = <<>> THEN text = <<>>
    ELSE IF Head(tokens) = Slot
    THEN \E k \in 0..Len(text) :
            Matches(Tail(tokens), SubSeq(text, k + 1, Len(text)))
    ELSE /\ text # <<>>
         /\ Head(text) = Head(tokens)
         /\ Matches(Tail(tokens), Tail(text))

\* C15: rendering leaves every part of the template that is not a known
\* placeholder unchanged, placeholder-like strings naming no field
\* included; a template without a known placeholder renders to an exact
\* copy of itself, with no error
C15_LiteralPartsUnchanged ==
    \A k \in 1..Len(rendered) :
        /\ rendered[k].ok
        /\ Matches(Tokenise(template), rendered[k].html)
        /\ (\A i \in 1..Len(Tokenise(template)) :
                Tokenise(template)[i] # Slot) => rendered[k].html = template

\* C16 as stated: rendering the same invoice against the same template
\* twice yields identical output, whatever the current date
C16_SameOutputAlways ==
    \A j \in 1..Len(rendered), k \in 1..Len(rendered) :
        /\ rendered[j].ok
        /\ rendered[j].html = rendered[k].html

\* C16 amended: rendering the same invoice against the same template twice
\* on the same calendar date yields identical output, whatever the time
\* of day of the two calls
C16_SameOutputOnSameDate ==
    \A j \in 1..Len(rendered), k \in 1..Len(rendered) :
        /\ rendered[j].ok
        /\ rendered[j].at.date = rendered[k].at.date =>
              rendered[j].html = rendered[k].html

\* a template showing the generation date was rendered twice on one day,
\* in the morning and in the afternoon
C16_Witness ==
    /\ template = GeneratedDateKey
    /\ Len(rendered) = 2
    /\ rendered[1].at.date = rendered[2].at.date
    /\ rendered[1].at.hour # rendered[2].at.hour
    /\ rendered[1].html = FormatDate(rendered[1].at.date)
    /\ rendered[2].html = rendered[1].html

\* the rows of an items block: the text after every row opening
ItemRows(block) == Tail(Split(block, RowOpen))

\* tr is the table row of item: product, quantity, unit price and
\* quantity x unit price, in that order
IsRowOf(tr, item) ==
    LET cells == Split(tr, MoneyCell) IN
    /\ Len(cells) = 3
    /\ cells[1] = item.product \o <<QuantityCell>> \o IntToText(item.quantity)
    /\ cells[2] = <<CurrencySymbol>> \o FormatAmount(item.price)
    /\ cells[3] = <<CurrencySymbol>>
                     \o FormatAmount(item.quantity * item.price)
                     \o <<RowClose>>

\* C17: the items placeholder is replaced by a block with exactly one
\* table row per line item of the invoice, in the items' input order, each
\* row holding the item's product, quantity, unit price and line total
C17_OneRowPerItem ==
    \A k \in 1..Len(rendered) :
        /\ rendered[k].ok
        /\ Len(ItemRows(rendered[k].items_html)) = Len(invoice_data.items)
        /\ \A i \in 1..Len(invoice_data.items) :
              IsRowOf(ItemRows(rendered[k].items_html)[i],
                      invoice_data.items[i])
        /\ template = ItemsRowsKey =>
              rendered[k].html = rendered[k].items_html

\* "Web Development|Hosting", "1|12", "1500.00|25.00" rendered as two rows
\* with the line totals 1500.00 and 300.00
C17_Witness ==
    /\ template = ItemsRowsKey
    /\ Len(rendered) >= 1
    /\ rendered[1].html =
          <<RowOpen, "W", "e", "b", " ", "D", "e", "v", "e", "l",
            "o", "p", "m", "e", "n", "t",
            QuantityCell, "1",
            MoneyCell, CurrencySymbol, "1", "5", "0", "0", ".", "0", "0",
            MoneyCell, CurrencySymbol, "1", "5", "0", "0", ".", "0", "0",
            RowClose,
            RowOpen, "H", "o", "s", "t", "i", "n", "g",
            QuantityCell, "1", "2",
            MoneyCell, CurrencySymbol, "2", "5", ".", "0", "0",
            MoneyCell, CurrencySymbol, "3", "0", "0", ".", "0", "0",
            RowClose>>

-----------------------------------------------------------------------------
(* Validation against parsing, checked under SpecValidate *)

\* validation reported an issue for row n
Flagged(n) == \E k \in 1..Len(issues) : issues[k].row = n

\* validation ended in its outer handler
Aborted == issues # <<>> /\ issues[Len(issues)] = ReadingIssue

\* validation checked row n and reported nothing for it
Accepted(n) ==
    /\ n <= validate_row_num
    /\ ~Flagged(n)
    /\ ~(Aborted /\ n = validate_row_num)

\* C21: validation and parsing agree: for a file with rows,
\* validate_csv_structure reports no issue exactly when every row parses
\* in process_csv; a row validation flags is never turned into an invoice
\* and a row validation accepts never produces a parse error
C21_ValidationAgreesWithParsing ==
    (validate_pc = "returned" /\ pc = "returned" /\ csv_file = "readable") =>
        /\ csv_content.lines # <<>> =>
              (issues = <<>> <=> \A n \in RowNumbers : hist[n].stage # "parse")
        /\ \A n \in RowNumbers :
              /\ Flagged(n) => hist[n].stage = "parse"
              /\ Accepted(n) => hist[n].stage # "parse"

====
